---- MODULE Spec2Model ----
(***************************************************************************)
(* State-machine model of emotion_id/train.py: the train() step loop with  *)
(* its periodic validation, filewise evaluation and checkpointing, and the *)
(* two evaluation routines validate() and validate_filewise().             *)
(***************************************************************************)
EXTENDS Integers, Sequences, FiniteSets, TLC

\* ------------------------------------------------------------------ bounds
MaxSteps == 3        \* largest step budget FLAGS.steps drawn in Init
MaxEvery == 2        \* largest val_every / save_every drawn in Init
MaxValidSteps == 1   \* largest valid_steps drawn in Init
MaxAvail == 2        \* batches held by a streaming source that runs dry
MaxLen == 3          \* longest label / prediction sequence drawn in InitShapes

\* ------------------------------------------------------ program constants
MinValEvery == 100       \* max(100, steps // 50)
ValEveryDivisor == 50
MinValidSteps == 20      \* max(20, val_every // 100)
ValidStepsDivisor == 100

\* The closed set of architecture names accepted by the model flag.
ModelNames ==
    {"linear", "baseline", "mlp2", "mlp4", "conv", "rnn", "rnn_bi",
     "wavenet", "wavenet_unmasked"}

Unbounded == -1          \* a streaming source that never runs dry
None == "None"

Max(a, b) == IF a >= b THEN a ELSE b

\* ------------------------------------------------------------- loss values
\* A loss is a rational [num, den]; den = 0 encodes the two non-finite
\* floats: 0/0 is NaN (the mean of an empty array) and 1/0 is +inf.
NaN == [num |-> 0, den |-> 0]
Inf == [num |-> 1, den |-> 0]

RECURSIVE Gcd(_, _)
Gcd(a, b) == IF b = 0 THEN a ELSE Gcd(b, a % b)

\* np.array(losses).mean(): sum / count, NaN for an empty list.
Mean(acc) ==
    IF acc.den = 0 THEN NaN
    ELSE LET g == Gcd(acc.num, acc.den)
         IN  [num |-> acc.num \div g, den |-> acc.den \div g]

\* Float comparison a < b: false whenever either side is NaN.
Less(a, b) ==
    IF a = NaN \/ b = NaN THEN FALSE
    ELSE IF a = Inf THEN FALSE
    ELSE IF b = Inf THEN TRUE
    ELSE a.num * b.den < b.num * a.den

\* --------------------------------------------------------------- resampler
\* round(n / d) for n >= 0, d > 0, ties to the even neighbour.
Round(n, d) ==
    LET q == n \div d
        r == n % d
    IN  IF 2 * r < d THEN q
        ELSE IF 2 * r > d THEN q + 1
        ELSE IF q % 2 = 0 THEN q ELSE q + 1

\* Mutant: the input position is taken one too far.
ResampleIndexOffByOne(t, L, T) ==
    LET i == Round(t * L, T) + 1
    IN  IF i > L - 1 THEN L - 1 ELSE i

\* Input position of output position t (both counted from 0): the nearest
\* position under the proportional mapping, clamped to [0, L-1].
ResampleIndex(t, L, T) ==
    LET i == Round(t * L, T)
    IN  IF i > L - 1 THEN L - 1 ELSE i

\* resample_1d(labels, T): T labels picked from labels, none interpolated.
resample_1d(labels, T) ==
    [t \in 1..T |-> labels[ResampleIndex(t - 1, Len(labels), T) + 1]]

\* The labels of one window, each standing for its own position.
Labels(L) == [i \in 1..L |-> i - 1]

\* -------------------------------------------------------- random generator
\* A generator is its state; a draw returns the state and advances it.
ValidationSeed == 42
RngMod == 4
Seeded(seed) == seed % RngMod
Advance(s, n) == (s + n) % RngMod

\* Mutant: the context saves the generators but does not seed them.
EnterUnseeded(r, seed) == [r EXCEPT !.saved = r.own, !.tsaved = r.twin]

\* with FixedRandomState(seed): the generator is saved and seeded on entry,
\* and restored on exit.
EnterFixedRandomState(r, seed) ==
    [r EXCEPT !.saved = r.own, !.tsaved = r.twin,
              !.own = Seeded(seed), !.twin = Seeded(seed)]

ExitFixedRandomState(r) ==
    [r EXCEPT !.own = r.saved, !.twin = r.tsaved,
              !.saved = None, !.tsaved = None]

\* The loss of one validation batch: decided by the batch (l) and by the
\* random number d drawn while it is sampled and forwarded.
LossOf(l, d) == 1 + ((l + d) % 2)

\* ------------------------------------------------- stateful model protocol
\* A stateful model: its sequential state, its stash stack and its mode.
NewModel == [state |-> 0, stash |-> <<>>, mode |-> "train"]

\* reset_state(): clear to the defined initial state.
ResetState(m) == [m EXCEPT !.state = 0]

\* Mutant: a stash pushes two snapshots.
StashStateTwice(m) == [m EXCEPT !.stash = Append(Append(@, m.state), m.state)]

\* stash_state(): push the current state, leaving it in place.
StashState(m) == [m EXCEPT !.stash = Append(@, m.state)]

\* pop_state(): pop the most recent snapshot and restore it.
PopState(m) ==
    [m EXCEPT !.state = m.stash[Len(m.stash)],
              !.stash = SubSeq(m.stash, 1, Len(m.stash) - 1)]

\* Sequential states are 0..StateMod-1.
StateMod == 3

\* One forward pass: the state absorbs the input.
Forward(m, x) == [m EXCEPT !.state = (m.state + x) % StateMod]

\* What a forward pass hands on to the next stage.
Output(m) == m.state + 1

\* Mutant: train() leaves the mode as it is.
TrainKeepsMode(m) == m

Eval(m) == [m EXCEPT !.mode = "eval"]
Train(m) == [m EXCEPT !.mode = "train"]

\* A streaming source as the number of batches it still yields.
HasNext(src) == src = Unbounded \/ src > 0
Pull(src) == IF src = Unbounded THEN Unbounded ELSE src - 1

\* Mutant: every line is written twice.
WriteTwice(fh, line) == [fh EXCEPT !.lines = Append(Append(@, line), line)]

\* A loss-log file handle.
Closed == [opens |-> 0, closes |-> 0, lines |-> <<>>]
Open(fh) == [fh EXCEPT !.opens = @ + 1]
Write(fh, line) == [fh EXCEPT !.lines = Append(@, line)]
Close(fh) == [fh EXCEPT !.closes = @ + 1]

\* ------------------------------------------------------------------- state
VARIABLES
    pc,                 \* position in train() / validate() / validate_filewise()
    err,                \* the exception that aborted the run, or None
    FLAGS,              \* model, steps, val_every, save_every, valid_steps,
                        \* dry_run
    train_datastream,   \* batches left in the training source
    valid_datastream,   \* batches left in the validation source
    parsed_valid_dbl,   \* validation manifest: the windows of each file
    parsed_test_dbl,    \* test manifest: the windows of each file
    shape,              \* labels per window (L), predictions per window (T)
    cpc,                \* feature extractor
    model,              \* classifier, None until constructed
    step,               \* loop index of train()
    best_val_loss,
    valid_loss,         \* value returned by the last validate()
    vloc,               \* locals of validate()
    fw,                 \* locals of validate_filewise()
    train_losses_fh,
    valid_losses_fh,
    metadata,           \* lines appended to metadata.txt
    saved,              \* checkpoints written
    hist,               \* what the run has done so far
    twin,               \* sequential states of a run fed other training batches
    rng,                \* random generators of the run and of a second run
    ref                 \* sequential states of a run that never validates

vars ==
    <<pc, err, FLAGS, train_datastream, valid_datastream, parsed_valid_dbl,
      parsed_test_dbl, shape, cpc, model, step, best_val_loss, valid_loss, vloc, fw,
      train_losses_fh, valid_losses_fh, metadata, saved, hist, twin, rng,
      ref>>

inputs ==
    <<train_datastream, valid_datastream, parsed_valid_dbl, parsed_test_dbl,
      shape>>
files == <<train_losses_fh, valid_losses_fh, metadata, saved>>
models == <<cpc, model, twin, ref>>

\* ----------------------------------------------------------------- inputs
Batches == {1, 2}            \* batch contents
LossVals == {1, 2}           \* per-batch cross-entropy losses
Sources == {0, MaxAvail, Unbounded}

\* Manifest pairs <<validation, test>>. A manifest lists files; a file is
\* the sequence of windows (batch contents) its single-file stream yields.
OneFile == << <<1>> >>
EmptyThenTwo == << <<>>, <<2, 1>> >>
NoFiles == << >>
OneEmpty == << <<>> >>
Manifests ==
    {<<OneFile, EmptyThenTwo>>, <<NoFiles, OneFile>>,
     <<EmptyThenTwo, OneEmpty>>}

NoLocals == [step |-> 0, losses |-> NaN, pulled |-> 0, enter |-> <<>>]
NoFilewise ==
    [which |-> None, i |-> 0, j |-> 0, nlosses |-> 0, preds |-> 0,
     refs |-> 0, enter |-> <<>>]

\* Shapes of one window: L labels in, T predictions out. The program's
\* default window of 2048 frames gives 16 predictions; Downsample has the
\* same direction on a small window.
Downsample == [L |-> 4, T |-> 2]
ScenarioB == [L |-> 2048, T |-> 16]
Shapes == ([L : 1..MaxLen, T : 1..MaxLen]) \cup {ScenarioB}

\* The state before train() is entered, for flag values and data drawn
\* from the given sets. A cadence flag of 0 is the unset flag.
InitWith(names, budgets, vEvery, sEvery, vSteps, tSrcs, vSrcs, manifests, shapes, dry) ==
    /\ pc = "start"
    /\ err = None
    /\ FLAGS \in [model : names, steps : budgets, val_every : vEvery,
                  save_every : sEvery, valid_steps : vSteps, dry_run : dry]
    /\ train_datastream \in tSrcs
    /\ valid_datastream \in vSrcs
    /\ \E m \in manifests :
         /\ parsed_valid_dbl = m[1]
         /\ parsed_test_dbl = m[2]
    /\ shape \in shapes
    /\ cpc = NewModel
    /\ model = None
    /\ step = -1
    /\ best_val_loss = Inf
    /\ valid_loss = None
    /\ vloc = NoLocals
    /\ fw = NoFilewise
    /\ train_losses_fh = Closed
    /\ valid_losses_fh = Closed
    /\ metadata = 0
    /\ saved = [periodic |-> <<>>, best |-> <<>>, final |-> 0]
    /\ hist = [bodies |-> 0, fired |-> <<>>, events |-> <<>>, decided |-> {},
               resampled |-> <<>>, trace |-> <<>>]
    /\ twin = [cpc |-> NewModel, model |-> None]
    /\ rng = [own |-> 0, twin |-> 0, saved |-> None, tsaved |-> None,
              tlosses |-> NaN, tloss |-> None]
    /\ ref = [cpc |-> 0, model |-> 0]

\* A dry run given a short budget, which it may shorten further.
InitDry ==
    InitWith({"mlp2"}, {2}, {1}, {1}, {1}, {Unbounded}, Sources, Manifests,
             {Downsample}, {TRUE})

Init ==
    \/ InitWith({"linear", "mlp2"}, 0..MaxSteps, 0..MaxEvery, 0..MaxEvery,
                1..MaxValidSteps, Sources, Sources, Manifests, {Downsample},
                {FALSE})
    \/ InitDry

\* ------------------------------------------------------------ train(): setup
\* Lines 188-195: seeds, logging, and the two loss logs opened for append.
OpenLogs ==
    /\ pc = "start"
    /\ train_losses_fh' = Open(train_losses_fh)
    /\ valid_losses_fh' = Open(valid_losses_fh)
    /\ pc' = "cpc"
    /\ UNCHANGED <<rng, err, FLAGS, inputs, models, step, best_val_loss,
                   valid_loss, vloc, fw, metadata, saved, hist>>

\* A cadence no longer than k; an unset cadence stays unset.
Shrunk(k) == IF k = 0 THEN {0} ELSE 1..k

\* setup_dry_run(FLAGS): the flags of a smoke run, with a step budget and
\* cadences no larger than the ones given. The flags it may leave behind.
setup_dry_run(f) ==
    {[f EXCEPT !.steps = s, !.val_every = v, !.save_every = e] :
        s \in 0..f.steps, v \in Shrunk(f.val_every), e \in Shrunk(f.save_every)}

\* Lines 197-207: a dry run rewrites the flags; the feature extractor is
\* loaded, reset and put in eval mode.
SetupCpc ==
    /\ pc = "cpc"
    /\ FLAGS' \in IF FLAGS.dry_run = TRUE THEN setup_dry_run(FLAGS)
                  ELSE {FLAGS}
    /\ cpc' = Eval(ResetState(cpc))
    /\ twin' = [twin EXCEPT !.cpc = Eval(ResetState(@))]
    /\ pc' = "metadata"
    /\ UNCHANGED <<rng, err, inputs, model, ref, step, best_val_loss,
                   valid_loss, vloc, fw, files, hist>>

\* Lines 209-212: two lines appended to metadata.txt.
WriteMetadata ==
    /\ pc = "metadata"
    /\ metadata' = metadata + 2
    /\ pc' = "data"
    /\ UNCHANGED <<rng, err, FLAGS, inputs, models, step, best_val_loss,
                   valid_loss, vloc, fw, train_losses_fh, valid_losses_fh,
                   saved, hist>>

\* Lines 241-246: unset cadence flags take their derived defaults.
Defaults(f) ==
    LET ve == IF f.val_every = 0
              THEN Max(MinValEvery, f.steps \div ValEveryDivisor)
              ELSE f.val_every
        se == IF f.save_every = 0 THEN ve ELSE f.save_every
        vs == IF f.valid_steps = 0
              THEN Max(MinValidSteps, ve \div ValidStepsDivisor)
              ELSE f.valid_steps
    IN  [f EXCEPT !.val_every = ve, !.save_every = se, !.valid_steps = vs]

\* Lines 214-250: the streams are built and the cadence flags defaulted.
SetupData ==
    /\ pc = "data"
    /\ FLAGS' = Defaults(FLAGS)
    /\ pc' = "select"
    /\ UNCHANGED <<rng, err, inputs, models, step, best_val_loss, valid_loss,
                   vloc, fw, files, hist>>

\* Lines 252-309: an `if` for "linear", then a separate if/elif chain that
\* starts at "baseline" and ends in `else: raise NameError`.
Constructs(name) ==
    name \in {"baseline", "mlp2", "mlp4", "conv", "rnn", "rnn_bi", "wavenet",
              "wavenet_unmasked"}

SelectModel ==
    /\ pc = "select"
    /\ IF Constructs(FLAGS.model)
       THEN /\ model' = NewModel
            /\ twin' = [twin EXCEPT !.model = NewModel]
            /\ pc' = "optimizer"
            /\ err' = err
       ELSE /\ model' = IF FLAGS.model = "linear" THEN NewModel ELSE model
            /\ twin' = [twin EXCEPT
                          !.model = IF FLAGS.model = "linear" THEN NewModel
                                    ELSE @]
            /\ pc' = "aborted"
            /\ err' = "NameError"
    /\ UNCHANGED <<rng, FLAGS, inputs, cpc, ref, step, best_val_loss, valid_loss,
                   vloc, fw, files, hist>>

\* Lines 311-318: optimizer built, best_val_loss = inf.
InitLoop ==
    /\ pc = "optimizer"
    /\ best_val_loss' = Inf
    /\ pc' = "next_batch"
    /\ UNCHANGED <<rng, err, FLAGS, inputs, models, step, valid_loss, vloc, fw,
                   files, hist>>

\* -------------------------------------------------------- train(): the loop
\* Mutant: the test without `step != 0`.
ShouldValidateFromZero(s, every) == s % every = 0

\* Line 344: validation fires on the positive multiples of val_every.
ShouldValidate(s, every) == s % every = 0 /\ s # 0

\* Mutant: the test without `step != 0`.
ShouldSaveFromZero(s, every) == s % every = 0

\* Line 377: a periodic checkpoint on the positive multiples of save_every.
ShouldSave(s, every) == s % every = 0 /\ s # 0

\* Mutant: `>` for `>=`.
BudgetReachedLate(s, budget) == s > budget

\* Line 380: the step budget is checked after the body of the step.
BudgetReached(s, budget) == s >= budget

\* Line 123: validate() leaves its loop after the body of step valid_steps.
ValidStepsReached(s, validSteps) == s >= validSteps

\* Line 371: a new best needs a strictly smaller loss.
IsNewBest(loss, best) == Less(loss, best)

\* Line 319: enumerate(train_datastream) yields the next step and batch, or
\* the stream is exhausted and the loop falls through to the final save.
NextBatch ==
    /\ pc = "next_batch"
    /\ IF HasNext(train_datastream)
       THEN /\ train_datastream' = Pull(train_datastream)
            /\ step' = step + 1
            /\ hist' = [hist EXCEPT !.bodies = @ + 1, !.trace = <<>>]
            /\ pc' = "forward"
       ELSE /\ UNCHANGED <<train_datastream, step, hist>>
            /\ pc' = "final_save"
    /\ UNCHANGED <<rng, err, FLAGS, valid_datastream, parsed_valid_dbl,
                   parsed_test_dbl, shape, models, best_val_loss, valid_loss, vloc,
                   fw, files>>

\* Lines 320-323: batch b through cpc, the features through the classifier.
\* The twin run forwards batch b2 instead; the reference run forwards b.
TrainForwardWith(b, b2) ==
    /\ pc = "forward"
    /\ LET c == Forward(cpc, b)
           tc == Forward(twin.cpc, b2)
           rc == (ref.cpc + b) % StateMod
       IN  /\ cpc' = c
           /\ model' = Forward(model, Output(c))
           /\ twin' = [cpc |-> tc, model |-> Forward(twin.model, Output(tc))]
           /\ ref' = [cpc |-> rc, model |-> (ref.model + rc + 1) % StateMod]
    /\ hist' = [hist EXCEPT
                  !.resampled = resample_1d(Labels(shape.L), shape.T),
                  !.trace = Append(@, "forward")]
    /\ pc' = "update"
    /\ UNCHANGED <<rng, err, FLAGS, inputs, step, best_val_loss, valid_loss, vloc,
                   fw, files>>

TrainForward == \E b \in Batches : TrainForwardWith(b, b)

\* The same step in a pair of runs whose training batches differ freely.
TrainForwardTwin == \E b \in Batches, b2 \in Batches : TrainForwardWith(b, b2)

\* Lines 326-341: the classifier is forwarded a second time on the same
\* features, the optimizer steps, and the step's loss line is written.
\* The step draws r random numbers in this run and r2 in the second run.
TrainUpdateWith(r, r2) ==
    /\ pc = "update"
    /\ model' = Forward(model, Output(cpc))
    /\ twin' = [twin EXCEPT !.model = Forward(@, Output(twin.cpc))]
    /\ ref' = [ref EXCEPT !.model = (@ + ref.cpc + 1) % StateMod]
    /\ rng' = [rng EXCEPT !.own = Advance(@, r), !.twin = Advance(@, r2)]
    /\ train_losses_fh' = Write(train_losses_fh, step)
    /\ hist' = [hist EXCEPT !.trace = Append(@, "update")]
    /\ pc' = "val_check"
    /\ UNCHANGED <<err, FLAGS, inputs, cpc, step, best_val_loss, valid_loss,
                   vloc, fw, valid_losses_fh, metadata, saved>>

TrainUpdate == TrainUpdateWith(1, 1)

\* The same step in a pair of runs that consume randomness freely.
TrainUpdateRng == \E r \in 0..1, r2 \in 0..1 : TrainUpdateWith(r, r2)

\* Line 344.
ValCheck ==
    /\ pc = "val_check"
    /\ IF ShouldValidate(step, FLAGS.val_every)
       THEN /\ hist' = [hist EXCEPT !.fired = Append(@, step)]
            /\ pc' = "validate"
       ELSE /\ hist' = hist
            /\ pc' = "save_check"
    /\ UNCHANGED <<rng, err, FLAGS, inputs, models, step, best_val_loss,
                   valid_loss, vloc, fw, files>>

\* Lines 371-374: the best checkpoint and the best-loss record.
BestCheck ==
    /\ pc = "best_check"
    /\ IF IsNewBest(valid_loss, best_val_loss)
       THEN /\ saved' = [saved EXCEPT !.best = Append(@, step)]
            /\ best_val_loss' = valid_loss
       ELSE UNCHANGED <<saved, best_val_loss>>
    /\ hist' = [hist EXCEPT !.decided = @ \cup {step},
                            !.trace = Append(@, "best")]
    /\ pc' = "save_check"
    /\ UNCHANGED <<rng, err, FLAGS, inputs, models, step, valid_loss, vloc, fw,
                   train_losses_fh, valid_losses_fh, metadata>>

\* Lines 376-378: the step-tagged periodic checkpoint.
SaveCheck ==
    /\ pc = "save_check"
    /\ saved' = IF ShouldSave(step, FLAGS.save_every)
                THEN [saved EXCEPT !.periodic = Append(@, step)]
                ELSE saved
    /\ hist' = [hist EXCEPT !.trace = Append(@, "save")]
    /\ pc' = "break_check"
    /\ UNCHANGED <<rng, err, FLAGS, inputs, models, step, best_val_loss,
                   valid_loss, vloc, fw, train_losses_fh, valid_losses_fh,
                   metadata>>

\* Lines 380-381.
BreakCheck ==
    /\ pc = "break_check"
    /\ pc' = IF BudgetReached(step, FLAGS.steps) THEN "final_save"
             ELSE "next_batch"
    /\ hist' = [hist EXCEPT !.trace = Append(@, "budget")]
    /\ UNCHANGED <<rng, err, FLAGS, inputs, models, step, best_val_loss,
                   valid_loss, vloc, fw, files>>

\* Line 383: the untagged final save.
FinalSave ==
    /\ pc = "final_save"
    /\ saved' = [saved EXCEPT !.final = @ + 1]
    /\ pc' = "close"
    /\ UNCHANGED <<rng, err, FLAGS, inputs, models, step, best_val_loss,
                   valid_loss, vloc, fw, train_losses_fh, valid_losses_fh,
                   metadata, hist>>

\* Mutant: only the training log is closed.
CloseLogsOne ==
    /\ pc = "close"
    /\ train_losses_fh' = Close(train_losses_fh)
    /\ valid_losses_fh' = valid_losses_fh
    /\ pc' = "done"
    /\ UNCHANGED <<rng, err, FLAGS, inputs, models, step, best_val_loss,
                   valid_loss, vloc, fw, metadata, saved, hist>>

\* Lines 385-387.
CloseLogs ==
    /\ pc = "close"
    /\ train_losses_fh' = Close(train_losses_fh)
    /\ valid_losses_fh' = Close(valid_losses_fh)
    /\ pc' = "done"
    /\ UNCHANGED <<rng, err, FLAGS, inputs, models, step, best_val_loss,
                   valid_loss, vloc, fw, metadata, saved, hist>>

\* -------------------------------------------------------------- validate()
\* Lines 105-113: eval mode, both models stash their state, and the random
\* generator is put under the fixed seed.
ValidateEnter ==
    /\ pc = "validate"
    /\ cpc' = StashState(cpc)
    /\ model' = StashState(Eval(model))
    /\ twin' = [cpc |-> StashState(twin.cpc),
                model |-> StashState(Eval(twin.model))]
    /\ vloc' = [step |-> 0, losses |-> NaN, pulled |-> 0,
                enter |-> <<cpc.state, model.state>>]
    /\ rng' = [EnterFixedRandomState(rng, ValidationSeed)
                 EXCEPT !.tlosses = NaN]
    /\ hist' = [hist EXCEPT !.trace = Append(@, "validate")]
    /\ pc' = "val_next"
    /\ UNCHANGED <<err, FLAGS, inputs, ref, step, best_val_loss, valid_loss,
                   fw, files>>

\* Line 114: the next batch of the validation source, if it has one.
ValidateNext ==
    /\ pc = "val_next"
    /\ IF HasNext(valid_datastream)
       THEN /\ valid_datastream' = Pull(valid_datastream)
            /\ vloc' = [vloc EXCEPT !.pulled = @ + 1]
            /\ pc' = "val_forward"
       ELSE /\ UNCHANGED <<valid_datastream, vloc>>
            /\ pc' = "val_exit"
    /\ UNCHANGED <<rng, err, FLAGS, train_datastream, parsed_valid_dbl,
                   parsed_test_dbl, shape, models, step, best_val_loss, valid_loss,
                   fw, files, hist>>

\* Lines 115-124: forward without gradients, one loss appended, then the
\* break test on the enumerate index.
ValidateForward ==
    /\ pc = "val_forward"
    /\ \E b \in Batches, l \in LossVals :
         LET c == Forward(cpc, b)
             tc == Forward(twin.cpc, b)
         IN  /\ cpc' = c
             /\ model' = Forward(model, Output(c))
             /\ twin' = [cpc |-> tc,
                         model |-> Forward(twin.model, Output(tc))]
             /\ rng' = [rng EXCEPT
                          !.own = Advance(@, 1),
                          !.twin = Advance(@, 1),
                          !.tlosses = [num |-> @.num + LossOf(l, rng.twin),
                                       den |-> @.den + 1]]
             /\ IF ValidStepsReached(vloc.step, FLAGS.valid_steps)
                THEN /\ vloc' = [vloc EXCEPT
                                   !.losses = [num |-> @.num
                                                         + LossOf(l, rng.own),
                                               den |-> @.den + 1]]
                     /\ pc' = "val_exit"
                ELSE /\ vloc' = [vloc EXCEPT
                                   !.losses = [num |-> @.num
                                                         + LossOf(l, rng.own),
                                               den |-> @.den + 1],
                                   !.step = @ + 1]
                     /\ pc' = "val_next"
    /\ hist' = [hist EXCEPT
                  !.resampled = resample_1d(Labels(shape.L), shape.T)]
    /\ UNCHANGED <<err, FLAGS, inputs, ref, step, best_val_loss, valid_loss,
                   fw, files>>

\* Mutant: validate() returns without popping the stashed states.
ValidateExitNoPop ==
    /\ pc = "val_exit"
    /\ cpc' = cpc
    /\ model' = Train(model)
    /\ twin' = [twin EXCEPT !.model = Train(@)]
    /\ valid_loss' = Mean(vloc.losses)
    /\ hist' = [hist EXCEPT
                  !.events = Append(@, [step |-> step,
                                        loss |-> Mean(vloc.losses),
                                        pulled |-> vloc.pulled])]
    /\ rng' = [ExitFixedRandomState(rng) EXCEPT !.tloss = Mean(rng.tlosses)]
    /\ pc' = "log_valid"
    /\ UNCHANGED <<err, FLAGS, inputs, ref, step, best_val_loss, vloc, fw,
                   files>>

\* Lines 125-129: both models pop their state, the classifier returns to
\* train mode, and the mean of the collected losses is returned.
ValidateExit ==
    /\ pc = "val_exit"
    /\ cpc' = PopState(cpc)
    /\ model' = Train(PopState(model))
    /\ twin' = [cpc |-> PopState(twin.cpc),
                model |-> Train(PopState(twin.model))]
    /\ valid_loss' = Mean(vloc.losses)
    /\ hist' = [hist EXCEPT
                  !.events = Append(@, [step |-> step,
                                        loss |-> Mean(vloc.losses),
                                        pulled |-> vloc.pulled])]
    /\ rng' = [ExitFixedRandomState(rng) EXCEPT !.tloss = Mean(rng.tlosses)]
    /\ pc' = "log_valid"
    /\ UNCHANGED <<err, FLAGS, inputs, ref, step, best_val_loss, vloc, fw,
                   files>>

\* Lines 347-353: the validation loss line is written.
LogValid ==
    /\ pc = "log_valid"
    /\ valid_losses_fh' =
         Write(valid_losses_fh, [step |-> step, loss |-> valid_loss])
    /\ fw' = [fw EXCEPT !.which = "valid"]
    /\ pc' = "filewise"
    /\ UNCHANGED <<rng, err, FLAGS, inputs, models, step, best_val_loss,
                   valid_loss, vloc, train_losses_fh, metadata, saved, hist>>

\* ----------------------------------------------------- validate_filewise()
\* The manifest of the current call: lines 355-357, then lines 363-365.
Dbl == IF fw.which = "valid" THEN parsed_valid_dbl ELSE parsed_test_dbl

\* Lines 133-141.
FilewiseEnter ==
    /\ pc = "filewise"
    /\ cpc' = StashState(cpc)
    /\ model' = StashState(Eval(model))
    /\ twin' = [cpc |-> StashState(twin.cpc),
                model |-> StashState(Eval(twin.model))]
    /\ fw' = [fw EXCEPT !.i = 0, !.j = 0, !.nlosses = 0, !.preds = 0,
                        !.refs = 0, !.enter = <<cpc.state, model.state>>]
    /\ hist' = [hist EXCEPT
                  !.trace = Append(@, IF fw.which = "valid"
                                      THEN "filewise_valid"
                                      ELSE "filewise_test")]
    /\ pc' = "fw_file"
    /\ UNCHANGED <<rng, err, FLAGS, inputs, ref, step, best_val_loss,
                   valid_loss, vloc, files>>

\* Lines 144-148: the next manifest entry and its single-file stream.
FilewiseNextFile ==
    /\ pc = "fw_file"
    /\ IF fw.i < Len(Dbl)
       THEN /\ fw' = [fw EXCEPT !.i = @ + 1, !.j = 0]
            /\ pc' = "fw_frame"
       ELSE /\ fw' = fw
            /\ pc' = "fw_exit"
    /\ UNCHANGED <<rng, err, FLAGS, inputs, models, step, best_val_loss,
                   valid_loss, vloc, files, hist>>

\* Line 149: the next window of the current file.
FilewiseNextFrame ==
    /\ pc = "fw_frame"
    /\ IF fw.j < Len(Dbl[fw.i])
       THEN /\ fw' = [fw EXCEPT !.j = @ + 1]
            /\ pc' = "fw_forward"
       ELSE /\ fw' = fw
            /\ pc' = "fw_file"
    /\ UNCHANGED <<rng, err, FLAGS, inputs, models, step, best_val_loss,
                   valid_loss, vloc, files, hist>>

\* Lines 150-165: forward, T predictions appended, the labels resampled
\* only if T > 1 and appended, then the loss, which cross_entropy refuses
\* to compute unless there are as many labels as predictions.
FilewiseForward ==
    /\ pc = "fw_forward"
    /\ LET b == Dbl[fw.i][fw.j]
           c == Forward(cpc, b)
           tc == Forward(twin.cpc, b)
       IN  /\ cpc' = c
           /\ model' = Forward(model, Output(c))
           /\ twin' = [cpc |-> tc,
                       model |-> Forward(twin.model, Output(tc))]
    /\ LET labels == IF shape.T > 1
                     THEN resample_1d(Labels(shape.L), shape.T)
                     ELSE Labels(shape.L)
       IN  /\ hist' = [hist EXCEPT
                         !.resampled = IF shape.T > 1 THEN labels ELSE @]
           /\ IF Len(labels) = shape.T
              THEN /\ fw' = [fw EXCEPT !.preds = @ + shape.T,
                                       !.refs = @ + Len(labels),
                                       !.nlosses = @ + 1]
                   /\ pc' = "fw_frame"
                   /\ err' = err
              ELSE /\ fw' = [fw EXCEPT !.preds = @ + shape.T,
                                       !.refs = @ + Len(labels)]
                   /\ pc' = "aborted"
                   /\ err' = "ValueError"
    /\ UNCHANGED <<rng, FLAGS, inputs, ref, step, best_val_loss, valid_loss,
                   vloc, files>>

\* Mutant: the call on the test manifest is skipped.
AfterFilewiseSkipTest(which) == "best_check"

\* Lines 355-371: the call on the validation manifest is followed by the
\* call on the test manifest, and that one by the best-save decision.
AfterFilewise(which) == IF which = "valid" THEN "filewise" ELSE "best_check"

\* Lines 167-184: torch.cat raises on an empty list; otherwise the metrics
\* are computed, both models pop their state and the classifier returns to
\* train mode. The first call is followed by the call on the test manifest
\* (lines 358-365), the second by the best-save decision (lines 366-371).
FilewiseExit ==
    /\ pc = "fw_exit"
    /\ IF fw.preds = 0
       THEN /\ pc' = "aborted"
            /\ err' = "RuntimeError"
            /\ UNCHANGED <<cpc, model, twin, fw>>
       ELSE /\ cpc' = PopState(cpc)
            /\ model' = Train(PopState(model))
            /\ twin' = [cpc |-> PopState(twin.cpc),
                        model |-> Train(PopState(twin.model))]
            /\ fw' = [fw EXCEPT !.which = IF @ = "valid" THEN "test" ELSE None]
            /\ pc' = AfterFilewise(fw.which)
            /\ err' = err
    /\ UNCHANGED <<rng, FLAGS, inputs, ref, step, best_val_loss, valid_loss, vloc,
                   files, hist>>

\* ----------------------------------------------------------- specification
Common ==
    \/ OpenLogs
    \/ SetupCpc
    \/ WriteMetadata
    \/ SetupData
    \/ SelectModel
    \/ InitLoop
    \/ NextBatch
    \/ ValCheck
    \/ ValidateEnter
    \/ ValidateNext
    \/ ValidateForward
    \/ ValidateExit
    \/ LogValid
    \/ FilewiseEnter
    \/ FilewiseNextFile
    \/ FilewiseNextFrame
    \/ FilewiseForward
    \/ FilewiseExit
    \/ BestCheck
    \/ SaveCheck
    \/ BreakCheck
    \/ FinalSave
    \/ CloseLogs

Rest == TrainUpdate \/ Common

Next == TrainForward \/ Rest

Spec == Init /\ [][Next]_vars

\* Scenario A of the specification: steps=10, val_every=5, save_every=5.
InitA ==
    InitWith({"linear", "mlp2"}, {10}, {5}, {5}, {1}, {Unbounded},
             {MaxAvail, Unbounded}, Manifests, {Downsample}, {FALSE})

SpecA == InitA /\ [][Next]_vars

\* Two runs side by side: the same flags, the same validation data, freely
\* differing training batches.
InitTwin ==
    InitWith({"linear", "mlp2"}, 0..1, {1}, {1}, {1}, {Unbounded},
             {Unbounded}, Manifests, {Downsample}, BOOLEAN)

NextTwin == TrainForwardTwin \/ Rest

SpecTwin == InitTwin /\ [][NextTwin]_vars

\* Two runs side by side: the same flags, the same data, the same training
\* batches, freely differing consumption of randomness while training.
InitRng ==
    InitWith({"mlp2"}, {2}, {1}, {1}, {1}, {Unbounded}, Sources, Manifests,
             {Downsample}, BOOLEAN)

NextRng == TrainForward \/ TrainUpdateRng \/ Common

SpecRng == InitRng /\ [][NextRng]_vars

\* One short run for every shape of a window.
InitShapes ==
    InitWith({"mlp2"}, {2}, {1}, {1}, {1}, {Unbounded}, {Unbounded},
             Manifests, Shapes, BOOLEAN)

SpecShapes == InitShapes /\ [][Next]_vars

\* ------------------------------------------------------------------ claims
Range(q) == {q[k] : k \in 1..Len(q)}
Upto(n) == [k \in 1..n |-> k - 1]

\* The training source never runs dry.
NeverDry == train_datastream = Unbounded
LoopLeft == pc \in {"final_save", "close", "done"}

\* C1: with a step budget steps >= 0 and a training source that never runs
\* dry, the loop runs the step body for exactly steps + 1 batches, numbered
\* 0..steps, then leaves the loop and saves the final model exactly once; no
\* step body runs after the final save.
C1_LoopTermination ==
    /\ saved.final <= 1
    /\ saved.final = 1 => pc \in {"close", "done"}
    /\ (NeverDry /\ FLAGS.steps >= 0) =>
         /\ hist.bodies <= FLAGS.steps + 1
         /\ LoopLeft =>
              /\ hist.bodies = FLAGS.steps + 1
              /\ train_losses_fh.lines = Upto(FLAGS.steps + 1)
         /\ pc = "done" => saved.final = 1

C1_Witness ==
    /\ pc = "done"
    /\ NeverDry
    /\ FLAGS.steps >= 2
    /\ hist.bodies = FLAGS.steps + 1
    /\ saved.final = 1

\* C2 as stated: with steps=10, val_every=5 and save_every=5, validation
\* fires at step 5 and not at step 10, and the only periodic checkpoint is
\* the one of step 5.
C2_Original ==
    /\ 10 \notin Range(hist.fired)
    /\ Range(saved.periodic) \subseteq {5}
    /\ (NeverDry /\ pc = "done") =>
         /\ hist.fired = <<5>>
         /\ saved.periodic = <<5>>

\* C2 as amended: with steps=10, val_every=5 and save_every=5, validation
\* fires at step 5 and again at step 10, whose body runs before the budget
\* test, and the periodic checkpoints are those of steps 5 and 10.
C2_ScenarioA ==
    /\ Range(hist.fired) \subseteq {5, 10}
    /\ Range(saved.periodic) \subseteq {5, 10}
    /\ (NeverDry /\ pc = "done") =>
         /\ hist.fired = <<5, 10>>
         /\ saved.periodic = <<5, 10>>

C2_Witness ==
    /\ pc = "done"
    /\ FLAGS.steps = 10
    /\ hist.fired = <<5, 10>>
    /\ saved.periodic = <<5, 10>>

\* The positive multiples of k that are at most n.
MultiplesUpto(k, n) == {m \in 1..n : m % k = 0}

\* C3 as stated: over a complete run with steps = S and save_every = K, the
\* periodic checkpoint tags are the positive multiples of K below S.
C3_Original ==
    (NeverDry /\ pc = "done") =>
        Range(saved.periodic) =
            MultiplesUpto(FLAGS.save_every, FLAGS.steps) \ {FLAGS.steps}

\* C3 as amended: over a complete run with steps = S and save_every = K,
\* the periodic checkpoint tags are the positive multiples of K up to and
\* including S, each written once; step 0 is never tagged.
C3_Cadence ==
    /\ 0 \notin Range(saved.periodic)
    /\ Cardinality(Range(saved.periodic)) = Len(saved.periodic)
    /\ pc \notin {"start", "cpc", "metadata", "data"} =>
         Range(saved.periodic) \subseteq
             MultiplesUpto(FLAGS.save_every, Max(step, 0))
    /\ (NeverDry /\ pc = "done") =>
         Range(saved.periodic) =
             MultiplesUpto(FLAGS.save_every, FLAGS.steps)

C3_Witness ==
    /\ pc = "done"
    /\ NeverDry
    /\ Len(saved.periodic) >= 2
    /\ FLAGS.steps \in Range(saved.periodic)

\* C5: for cpc and for the classifier, the sequential state held when
\* validate() or validate_filewise() returns equals the state held when it
\* was called, and every training step sees the states of a run in which
\* validation never fires.
States == <<cpc.state, model.state>>

C5_StateRestored ==
    /\ pc = "log_valid" => States = vloc.enter
    /\ (pc = "filewise" /\ fw.which = "test") => States = fw.enter
    /\ pc = "best_check" => States = fw.enter
    /\ pc \in {"forward", "update"} => States = <<ref.cpc, ref.model>>

C5_Witness ==
    /\ pc = "forward"
    /\ Len(hist.events) >= 2
    /\ hist.events[1].pulled >= 2
    /\ States = <<ref.cpc, ref.model>>
    /\ States # <<0, 0>>

\* C4 as stated: at every validation event whose best-save decision has been
\* taken, the best checkpoint was written if and only if the event's loss is
\* strictly smaller than the loss of every earlier event; in particular the
\* first event always writes it.
C4_Original ==
    \A k \in 1..Len(hist.events) :
        hist.events[k].step \in hist.decided =>
            (hist.events[k].step \in Range(saved.best)
               <=> \A j \in 1..(k - 1) :
                      Less(hist.events[k].loss, hist.events[j].loss))

\* The first forward pass of validate() or of validate_filewise() is about
\* to run.
FirstEvalForward ==
    \/ pc = "val_forward" /\ vloc.step = 0
    \/ pc = "fw_forward" /\ fw.nlosses = 0

\* C6 as stated: the sequential state with which the first evaluation
\* forward runs is the same in two runs that differ only in the training
\* batches forwarded before the validation event.
C6_Original ==
    FirstEvalForward =>
        /\ cpc.state = twin.cpc.state
        /\ model.state = twin.model.state

InValidate == pc \in {"val_next", "val_forward", "val_exit", "log_valid"}

\* C7 as stated: one call of validate() pulls at most valid_steps batches
\* and averages at most valid_steps losses.
C7_Original ==
    InValidate =>
        /\ vloc.pulled <= FLAGS.valid_steps
        /\ vloc.losses.den <= FLAGS.valid_steps

Selected == pc \notin {"start", "cpc", "metadata", "data", "select"}

\* C8 as stated: every name of the accepted set constructs a classifier and
\* reaches the loop; 'Model name not found' is raised only for other names.
C8_Original ==
    /\ err = "NameError" => FLAGS.model \notin ModelNames
    /\ (Selected /\ FLAGS.model \in ModelNames) =>
           (model # None /\ err # "NameError")

\* C9 as stated: when the unknown-model error aborts train(), no loss log has
\* been opened, nothing has been appended to metadata.txt, no checkpoint has
\* been written and no file handle is left open.
C9_Original ==
    err = "NameError" =>
        /\ train_losses_fh.opens = 0
        /\ valid_losses_fh.opens = 0
        /\ metadata = 0
        /\ saved = [periodic |-> <<>>, best |-> <<>>, final |-> 0]
        /\ train_losses_fh.opens = train_losses_fh.closes
        /\ valid_losses_fh.opens = valid_losses_fh.closes

\* C10 as stated: a validate() whose source yields no batch never returns a
\* loss, so the event writes no validation log line and takes no best-save
\* decision.
C10_Original ==
    /\ pc = "log_valid" => vloc.pulled >= 1
    /\ \A k \in 1..Len(hist.events) :
           hist.events[k].pulled = 0 =>
               /\ \A n \in 1..Len(valid_losses_fh.lines) :
                      valid_losses_fh.lines[n].step # hist.events[k].step
               /\ hist.events[k].step \notin hist.decided


\* A call of validate_filewise() has returned normally: the call on the
\* validation manifest, or the call on the test manifest.
ReturnedValid == pc = "filewise" /\ fw.which = "test"
ReturnedTest == pc = "best_check"
NoEmptyFile(dbl) == \A i \in 1..Len(dbl) : Len(dbl[i]) > 0

\* C11 as stated: validate_filewise() fails whenever some file of its
\* manifest yields zero frames, so a call that returns has seen no such file.
C11_Original ==
    /\ ReturnedValid => NoEmptyFile(parsed_valid_dbl)
    /\ ReturnedTest => NoEmptyFile(parsed_test_dbl)

HandleOk(fh) ==
    /\ fh.opens <= 1
    /\ fh.closes <= fh.opens
    /\ fh.closes >= 1 => saved.final = 1
    /\ pc = "done" => (fh.opens = 1 /\ fh.closes = 1)

\* C12: in a run that terminates normally each loss-log handle is opened
\* exactly once and closed exactly once, the close comes after the final
\* save, and nothing is written to a handle once it is closed.
C12_Handles ==
    /\ [](HandleOk(train_losses_fh) /\ HandleOk(valid_losses_fh))
    /\ [][/\ train_losses_fh.closes >= 1 =>
               train_losses_fh'.lines = train_losses_fh.lines
          /\ valid_losses_fh.closes >= 1 =>
               valid_losses_fh'.lines = valid_losses_fh.lines]_vars

C12_Witness ==
    /\ pc = "done"
    /\ Len(valid_losses_fh.lines) >= 1
    /\ Len(train_losses_fh.lines) >= 2
    /\ train_losses_fh.closes = 1
    /\ valid_losses_fh.closes = 1


\* C13: the resampler returns exactly T labels, each taken from an input
\* position in [0, L-1], the positions never decrease, output 0 comes from
\* input 0, and for T = L the output is the input.
C13_Resampler ==
    LET r == hist.resampled
    IN  r # <<>> =>
          /\ Len(r) = shape.T
          /\ \A t \in 1..Len(r) : r[t] \in 0..(shape.L - 1)
          /\ \A t \in 1..(Len(r) - 1) : r[t] <= r[t + 1]
          /\ r[1] = 0
          /\ shape.T = shape.L => r = Labels(shape.L)

C13_Witness ==
    /\ pc = "update"
    /\ shape = ScenarioB
    /\ Len(hist.resampled) = 16
    /\ hist.resampled[16] = 1920

\* C19 as stated: in validate_filewise() the reference sequence and the
\* prediction sequence have the same total length after every step.
C19_Original == fw.refs = fw.preds


\* C14: two invocations of validate() that start with the same parameters,
\* the same sequential state and the same validation cursor return the same
\* mean loss, however much randomness training has consumed before each.
C14_Determinism ==
    (pc = "log_valid" /\ twin.cpc = cpc /\ twin.model = model)
        => rng.tloss = valid_loss

C14_Witness ==
    /\ pc = "log_valid"
    /\ twin.cpc = cpc
    /\ twin.model = model
    /\ rng.own # rng.twin
    /\ valid_loss # NaN
    /\ rng.tloss = valid_loss


\* The events of a step at which validation fires, and of any other step.
StepOrder ==
    <<"forward", "update", "validate", "filewise_valid", "filewise_test",
      "best", "save", "budget">>
PlainOrder == <<"forward", "update", "save", "budget">>
IsPrefix(a, b) == Len(a) <= Len(b) /\ \A k \in 1..Len(a) : a[k] = b[k]
Fired == step \in Range(hist.fired)

\* C15: at a step where validation fires the events are, in this order and
\* within the one batch: the optimizer update, validate(), validate_filewise()
\* on the validation manifest, validate_filewise() on the test manifest, the
\* best-save decision, the periodic-save check and the budget check; and the
\* best-save decision compares the loss returned by validate() and nothing
\* else.
C15_EventOrder ==
    /\ [](/\ IsPrefix(hist.trace, IF Fired THEN StepOrder ELSE PlainOrder)
          /\ (Fired /\ pc \in {"next_batch", "final_save", "close", "done"})
                => hist.trace = StepOrder
          /\ pc = "best_check" =>
                /\ hist.events # <<>>
                /\ hist.events[Len(hist.events)].step = step
                /\ hist.events[Len(hist.events)].loss = valid_loss)
    /\ [][pc = "best_check" =>
            /\ (saved'.best # saved.best) = Less(valid_loss, best_val_loss)
            /\ best_val_loss' = IF Less(valid_loss, best_val_loss)
                                THEN valid_loss ELSE best_val_loss]_vars

C15_Witness ==
    /\ pc = "next_batch"
    /\ hist.trace = StepOrder
    /\ step \in Range(saved.best)


\* Steps whose loss line is written, and steps whose validation test is done.
Logged == IF pc \in {"forward", "update"} THEN hist.bodies - 1 ELSE hist.bodies
Tested ==
    IF pc \in {"forward", "update", "val_check"} THEN hist.bodies - 1
    ELSE hist.bodies
ValidTags ==
    [k \in 1..Len(valid_losses_fh.lines) |-> valid_losses_fh.lines[k].step]
BeforeLogValid ==
    pc \in {"validate", "val_next", "val_forward", "val_exit", "log_valid"}

\* C16: train.txt holds one line per executed step, tagged 0, 1, 2, ... in
\* order; valid.txt holds one line per validation event, tagged with the
\* step at which it fired; validation fires at an executed step s exactly
\* when s # 0 and s % val_every = 0.
C16_LossLogs ==
    /\ train_losses_fh.lines = Upto(Logged)
    /\ ValidTags = IF BeforeLogValid
                   THEN SubSeq(hist.fired, 1, Len(hist.fired) - 1)
                   ELSE hist.fired
    /\ Cardinality(Range(hist.fired)) = Len(hist.fired)
    /\ Range(hist.fired) =
         {s \in 0..(Tested - 1) : s # 0 /\ s % FLAGS.val_every = 0}

C16_Witness ==
    /\ pc = "done"
    /\ Len(train_losses_fh.lines) >= 3
    /\ ValidTags = <<1, 2>>

\* The losses of the validation events whose best-save decision is taken.
DecidedLosses ==
    {hist.events[k].loss :
        k \in {j \in 1..Len(hist.events) : hist.events[j].step \in hist.decided}}

\* C17 as stated: best_val_loss is the minimum of the streamed validation
\* losses returned so far, and infinity when there is none.
C17_Original ==
    IF DecidedLosses = {} THEN best_val_loss = Inf
    ELSE /\ best_val_loss \in DecidedLosses
         /\ \A l \in DecidedLosses : ~Less(l, best_val_loss)

\* C18: for cpc and for the classifier the stash stack is empty at every
\* training forward, holds one snapshot at every forward of validate() and
\* validate_filewise(), never holds more than one, holds one when a pop is
\* issued, and holds the same one snapshot over all files of a filewise pass.
C18_StashDiscipline ==
    /\ pc \in {"forward", "update"} =>
         (Len(cpc.stash) = 0 /\ Len(model.stash) = 0)
    /\ pc \in {"val_next", "val_forward", "val_exit",
               "fw_file", "fw_frame", "fw_forward", "fw_exit"} =>
         (Len(cpc.stash) = 1 /\ Len(model.stash) = 1)
    /\ Len(cpc.stash) <= 1
    /\ Selected /\ err # "NameError" => Len(model.stash) <= 1

C18_Witness ==
    /\ pc = "fw_forward"
    /\ fw.which = "test"
    /\ fw.i = 2
    /\ Len(hist.events) >= 2
    /\ Len(cpc.stash) = 1
    /\ Len(model.stash) = 1

\* C20: the classifier is in train mode at every training forward and in
\* eval mode at every forward of validate() and validate_filewise(), both
\* of which return with it in train mode; cpc is in eval mode at every
\* forward; a mode change leaves the stash and the sequential state alone.
C20_Modes ==
    /\ pc \in {"forward", "update"} =>
         (model.mode = "train" /\ cpc.mode = "eval")
    /\ pc \in {"val_forward", "fw_forward"} =>
         (model.mode = "eval" /\ cpc.mode = "eval")
    /\ (pc = "log_valid" \/ ReturnedValid \/ ReturnedTest) =>
         model.mode = "train"
    /\ Selected /\ err # "NameError" =>
         /\ Eval(model) = [model EXCEPT !.mode = "eval"]
         /\ Train(model) = [model EXCEPT !.mode = "train"]
         /\ Eval(cpc) = [cpc EXCEPT !.mode = "eval"]

C20_Witness ==
    /\ pc = "forward"
    /\ Len(hist.events) >= 1
    /\ model.mode = "train"
    /\ cpc.mode = "eval"
    /\ model.state # 0

====
